---- MODULE Spec2Model ----
(***************************************************************************)
(* DebugPatterns: the pattern registry (src/lib/patterns.ts and            *)
(* src/data/registry.ts), the detail page PatternPage, the list view       *)
(* PatternGrid with its WorkflowCard tiles, and the not-found page.        *)
(*                                                                         *)
(* Code texts are written as their first line, an ellipsis line and their  *)
(* last line, with the leading and trailing whitespace of the source; the  *)
(* marks that open the code examples are written [x] and [v].              *)
(***************************************************************************)
EXTENDS Integers, Sequences, FiniteSets, TLC

VARIABLES
    patterns,   \* the two module-level arrays: patterns.lib, patterns.data
    pc,         \* position of the page render in progress
    route,      \* the request being served: path kind, params.id, registry read
    pattern,    \* PatternPage: const pattern = patterns.find(...)
    error,      \* the control-flow error thrown by notFound(), or "none"
    lookups,    \* number of find() evaluations made for the current request
    page,       \* the response rendered for the last completed request
    served,     \* number of requests accepted so far
    notFounds,  \* number of requests that ended in the not-found page
    listed,     \* per registry, the results of the last two reads of the full list
    fn,         \* inputs and results of the registry operations applied directly
    ui,         \* the client components of the page shown: code blocks, clipboard, console
    readers     \* the page renders in progress at the same time, one record each

vars == <<patterns, pc, route, pattern, error, lookups, page, served, notFounds,
          listed, fn, ui, readers>>

-----------------------------------------------------------------------------
(* Bounds of the model *)

MaxRequests == 4

MaxLimit == 7

MaxCopies == 2

MaxVisits == 2

NumReaders == 2

MaxUseCases == 4

-----------------------------------------------------------------------------
(* The simple registry: src/lib/patterns.ts *)

libPatterns ==
    << [id |-> "async-promise-hell",
        title |-> "Promise Chaining",
        description |-> "Visualize and debug complex asynchronous flows and promise chains for structured reasoning and step-by-step task completion.",
        category |-> "WORKFLOW",
        diagram |-> "https://raw.githubusercontent.com/noah-ing/Debug-Pics/refs/heads/main/mermaid-diagram-2025-01-09-222927.svg"],
       [id |-> "memory-leaks",
        title |-> "Memory Leaks 101",
        description |-> "A systematic approach to identifying and fixing memory leaks through heap snapshot analysis, memory usage visualization, and common leak pattern detection.",
        category |-> "PERFORMANCE",
        diagram |-> "https://raw.githubusercontent.com/noah-ing/Debug-Pics/refs/heads/main/mermaid-diagram-2025-01-09-224808.svg"],
       [id |-> "api-integration",
        title |-> "API Integration",
        description |-> "A comprehensive debugging flow for API integrations, focusing on request/response cycles, error handling patterns, and timeout/retry strategies.",
        category |-> "INTEGRATION",
        diagram |-> "https://raw.githubusercontent.com/noah-ing/Debug-Pics/refs/heads/main/mermaid-diagram-2025-01-09-222949.svg"],
       [id |-> "state-management",
        title |-> "State Management",
        description |-> "A visual approach to debugging state management issues, tracking component re-renders, state mutations, and cache invalidation patterns.",
        category |-> "STATE",
        diagram |-> "https://raw.githubusercontent.com/noah-ing/Debug-Pics/refs/heads/main/mermaid-diagram-2025-01-09-222959.svg"],
       [id |-> "performance-bottleneck",
        title |-> "Performance Bottleneck",
        description |-> "A systematic method for identifying and resolving performance bottlenecks through waterfall diagrams, load time analysis, and resource optimization.",
        category |-> "PERFORMANCE",
        diagram |-> "https://raw.githubusercontent.com/noah-ing/Debug-Pics/refs/heads/main/mermaid-diagram-2025-01-09-223020.svg"],
       [id |-> "stack-trace",
        title |-> "Stack Trace Analyzer",
        description |-> "A structured approach to runtime error debugging, helping developers navigate complex stack traces, identify error sources, and implement error boundaries.",
        category |-> "RUNTIME",
        diagram |-> "https://raw.githubusercontent.com/noah-ing/Debug-Pics/refs/heads/main/mermaid-diagram-2025-01-09-223035.svg"] >>

-----------------------------------------------------------------------------
(* The rich registry: src/data/registry.ts and the records it imports *)

asyncPromiseHellPattern ==
    [id |-> "async-promise-hell",
     title |-> "Promise Chaining",
     description |-> "Visualize and debug complex asynchronous flows and promise chains for structured reasoning and step-by-step task completion.",
     category |-> "WORKFLOW",
     diagram |-> "https://raw.githubusercontent.com/noah-ing/Debug-Pics/refs/heads/main/mermaid-diagram-2025-01-09-222927.svg",
     useCases |-> << "Complex data fetching workflows",
                     "Multi-step form submissions",
                     "Dependent API calls",
                     "Resource cleanup chains" >>,
     implementation |->
         [typescript |-> "// Real-world example: User checkout flow with inventory check, payment, and order creation\n...\n}",
          python |-> "# Real-world example: User checkout flow with inventory check, payment, and order creation\n...\n        raise"],
     codeExamples |->
         << [title |-> "Common Promise Chain Issues",
             language |-> "typescript",
             code |-> "// [x] Common Issues in Promise Chains\n...\n}"],
            [title |-> "Improved Promise Chain",
             language |-> "typescript",
             code |-> "// [v] Better Promise Chain Implementation\n...\n}"] >>]

memoryLeaksPattern ==
    [id |-> "memory-leaks",
     title |-> "Memory Leaks 101",
     description |-> "A systematic approach to identifying and fixing memory leaks through heap snapshot analysis, memory usage visualization, and common leak pattern detection.",
     category |-> "PERFORMANCE",
     diagram |-> "https://raw.githubusercontent.com/noah-ing/Debug-Pics/refs/heads/main/mermaid-diagram-2025-01-09-224808.svg",
     useCases |-> << "Long-running web applications",
                     "Single-page applications (SPAs)",
                     "Real-time data processing systems",
                     "Applications with dynamic component loading" >>,
     implementation |->
         [typescript |-> "// Real-world example: Memory leak detection and prevention in a React-like application\n...\n}",
          python |-> "# Real-world example: Memory leak prevention in a data processing pipeline\n...\n        processor.cleanup()"],
     codeExamples |->
         << [title |-> "Common Memory Leak Patterns",
             language |-> "typescript",
             code |-> "// [x] Common memory leak patterns\n...\n}"],
            [title |-> "Memory-Safe Implementation",
             language |-> "typescript",
             code |-> "// [v] Memory-safe implementation\n...\n}"] >>]

apiIntegrationPattern ==
    [id |-> "api-integration",
     title |-> "API Integration",
     description |-> "A comprehensive debugging flow for API integrations, focusing on request/response cycles, error handling patterns, and timeout/retry strategies.",
     category |-> "INTEGRATION",
     diagram |-> "https://raw.githubusercontent.com/noah-ing/Debug-Pics/refs/heads/main/mermaid-diagram-2025-01-09-222949.svg",
     useCases |-> << "Complex API integrations",
                     "Error handling strategies",
                     "Request/response debugging",
                     "Timeout and retry patterns" >>,
     implementation |->
         [typescript |-> "// Real-world example: Robust API client with retries, caching, and error handling\n...\n}",
          python |-> "# Real-world example: Robust API client with retries, caching, and error handling\n...\n        print(f\"API Error: {e}\")\n"],
     codeExamples |->
         << [title |-> "Common API Integration Issues",
             language |-> "typescript",
             code |-> "// [x] Common API integration issues\n...\n}"],
            [title |-> "Robust API Integration",
             language |-> "typescript",
             code |-> "// [v] Robust API integration\n...\n}"] >>]

stateManagementPattern ==
    [id |-> "state-management",
     title |-> "State Management",
     description |-> "A visual approach to debugging state management issues, tracking component re-renders, state mutations, and cache invalidation patterns.",
     category |-> "STATE",
     diagram |-> "https://raw.githubusercontent.com/noah-ing/Debug-Pics/refs/heads/main/mermaid-diagram-2025-01-09-222959.svg",
     useCases |-> << "Complex state flows",
                     "Component re-renders",
                     "Cache invalidation",
                     "State mutation tracking" >>,
     implementation |->
         [typescript |-> "// Real-world example: Type-safe state management with debugging and performance optimization\n...\n}",
          python |-> "# Real-world example: Type-safe state management with debugging and performance optimization\n...\n        logging.error(\"Unexpected error\", exc_info=True)"],
     codeExamples |->
         << [title |-> "Common State Management Issues",
             language |-> "typescript",
             code |-> "// [x] Common state management issues\n...\n}"],
            [title |-> "Robust State Management",
             language |-> "typescript",
             code |-> "// [v] Robust state management\n...\n}"] >>]

performanceBottleneckPattern ==
    [id |-> "performance-bottleneck",
     title |-> "Performance Bottleneck",
     description |-> "A systematic method for identifying and resolving performance bottlenecks through waterfall diagrams, load time analysis, and resource optimization.",
     category |-> "PERFORMANCE",
     diagram |-> "https://raw.githubusercontent.com/noah-ing/Debug-Pics/refs/heads/main/mermaid-diagram-2025-01-09-223020.svg",
     useCases |-> << "Load time optimization",
                     "Resource utilization",
                     "Performance monitoring",
                     "Bottleneck identification" >>,
     implementation |->
         [typescript |-> "// Real-world example: Performance monitoring and optimization toolkit\n...\n});",
          python |-> "# Real-world example: Performance monitoring and optimization toolkit\n...\n    asyncio.run(main())"],
     codeExamples |->
         << [title |-> "Common Performance Issues",
             language |-> "typescript",
             code |-> "// [x] Common performance issues\n...\n}"],
            [title |-> "Optimized Implementation",
             language |-> "typescript",
             code |-> "// [v] Optimized implementation\n...\n}"] >>]

stackTracePattern ==
    [id |-> "stack-trace",
     title |-> "Stack Trace Analyzer",
     description |-> "A structured approach to runtime error debugging, helping developers navigate complex stack traces, identify error sources, and implement error boundaries.",
     category |-> "RUNTIME",
     diagram |-> "https://raw.githubusercontent.com/noah-ing/Debug-Pics/refs/heads/main/mermaid-diagram-2025-01-09-223035.svg",
     useCases |-> << "Error tracking",
                     "Stack trace analysis",
                     "Error boundaries",
                     "Runtime debugging" >>,
     implementation |->
         [typescript |-> "// Real-world example: Error tracking and analysis system\n...\n}",
          python |-> "# Real-world example: Error tracking and analysis system\n...\n        raise"],
     codeExamples |->
         << [title |-> "Common Error Handling Issues",
             language |-> "typescript",
             code |-> "// [x] Common error handling issues\n...\n}"],
            [title |-> "Robust Error Handling",
             language |-> "typescript",
             code |-> "// [v] Robust error handling\n...\n}"] >>]

\* A registry that lists two records in the other order.
dataPatternsSwapped ==
    << asyncPromiseHellPattern,
       memoryLeaksPattern,
       stateManagementPattern,
       apiIntegrationPattern,
       performanceBottleneckPattern,
       stackTracePattern >>

\* A registry that imports one record twice.
dataPatternsDuplicated ==
    << asyncPromiseHellPattern,
       memoryLeaksPattern,
       apiIntegrationPattern,
       stateManagementPattern,
       performanceBottleneckPattern,
       memoryLeaksPattern >>

dataPatterns ==
    << asyncPromiseHellPattern,
       memoryLeaksPattern,
       apiIntegrationPattern,
       stateManagementPattern,
       performanceBottleneckPattern,
       stackTracePattern >>

\* The two registries a page can import: '@/lib/patterns' and '@/data'.
Sources == {"lib", "data"}

\* export type PatternCategory = 'WORKFLOW' | 'PERFORMANCE' | 'INTEGRATION' | 'STATE' | 'RUNTIME'
PatternCategory == { "WORKFLOW", "PERFORMANCE", "INTEGRATION", "STATE", "RUNTIME" }

-----------------------------------------------------------------------------
(* Array operations, computed as the pages compute them *)

\* The value of Array.prototype.find when no element matches.
undefined == [kind |-> "undefined"]

RECURSIVE findFrom(_, _, _)
findFrom(reg, id, i) ==
    IF i > Len(reg) THEN undefined
    ELSE IF reg[i].id = id THEN reg[i]
    ELSE findFrom(reg, id, i + 1)

\* A lookup that falls back to the first entry when nothing matches.
findOrFirst(reg, id) ==
    IF \E i \in 1..Len(reg) : reg[i].id = id
    THEN findFrom(reg, id, 1)
    ELSE reg[1]

\* A lookup that keeps scanning and returns the entry after the match.
findNext(reg, id) ==
    IF \E i \in 1..Len(reg) : reg[i].id = id
    THEN reg[((CHOOSE i \in 1..Len(reg) : reg[i].id = id) % Len(reg)) + 1]
    ELSE undefined

\* patterns.find(p => p.id === params.id)
find(reg, id) == findFrom(reg, id, 1)

\* The array after a find whose callback assigns instead of comparing,
\* p => p.id = id: the scan stops at the first truthy value assigned.
arrayAfterFindAssigning(reg, id) ==
    IF id # ""
    THEN [reg EXCEPT ![1].id = id]
    ELSE [i \in 1..Len(reg) |-> [reg[i] EXCEPT !.id = id]]

\* The array after find: the callback p => p.id === id only compares.
arrayAfterFind(reg, id) == reg

RECURSIVE filterFrom(_, _, _)
filterFrom(reg, id, i) ==
    IF i > Len(reg) THEN << >>
    ELSE (IF reg[i].id # id THEN << reg[i] >> ELSE << >>)
         \o filterFrom(reg, id, i + 1)

\* A filter whose predicate is inverted: it keeps the current pattern only.
filterInverted(reg, id) ==
    SelectSeq(reg, LAMBDA p : p.id = id)

\* A filter that drops the entry and moves the last entry into its place.
filterSwapRemove(reg, id) ==
    IF \E i \in 1..Len(reg) : reg[i].id = id
    THEN LET k == CHOOSE i \in 1..Len(reg) : reg[i].id = id
         IN  IF k = Len(reg) THEN SubSeq(reg, 1, Len(reg) - 1)
             ELSE SubSeq(reg, 1, k - 1) \o << reg[Len(reg)] >>
                  \o SubSeq(reg, k + 1, Len(reg) - 1)
    ELSE reg

\* patterns.filter(p => p.id !== currentPattern.id)
filter(reg, id) == filterFrom(reg, id, 1)

\* The array after a removal in place, splice, of the entry with the id.
arrayAfterSplice(reg, id) == filter(reg, id)

\* The array after filter(...).slice(...): both return new arrays and the
\* callback only compares.
arrayAfterFilter(reg, id) == reg

\* An off-by-one slice: it includes the element at index end.
sliceInclusive(s, start, end) ==
    SubSeq(s, start + 1, IF end + 1 < Len(s) THEN end + 1 ELSE Len(s))

\* Array.prototype.slice(start, end): negative indexes count from the end,
\* both are clamped to the length, end is exclusive.
slice(s, start, end) ==
    LET len == Len(s)
        from == IF start < 0
                THEN (IF len + start > 0 THEN len + start ELSE 0)
                ELSE (IF start < len THEN start ELSE len)
        to   == IF end < 0
                THEN (IF len + end > 0 THEN len + end ELSE 0)
                ELSE (IF end < len THEN end ELSE len)
    IN  SubSeq(s, from + 1, to)

\* A related list computed without the filter.
relatedToUnfiltered(reg, id, limit) == slice(reg, 0, limit)

\* A slice that stops two short of the limit.
relatedToStoppingShort(reg, id, limit) == slice(filter(reg, id), 0, limit - 2)

\* patterns.filter(p => p.id !== id).slice(0, limit)
relatedTo(reg, id, limit) == slice(filter(reg, id), 0, limit)

\* The limit the detail page passes to slice.
RelatedLimit == 2

\* A related list taken from the end of the filtered array.
relatedPatternsLastTwo(reg, id) == slice(filter(reg, id), 0 - 2, Len(reg))

\* The related list of the detail page, as an operation of the registry.
relatedPatterns(reg, id) == relatedTo(reg, id, RelatedLimit)

\* A truthiness test that is inverted.
falsyInverted(v) == v # undefined

\* !pattern: true of undefined, false of every object.
falsy(v) == v = undefined

\* A read of the list that starts at a position depending on the request.
listRotated(src) ==
    LET reg == patterns[src]
        k   == served % Len(reg)
    IN  SubSeq(reg, k + 1, Len(reg)) \o SubSeq(reg, 1, k)

\* The full list: the exported array itself, read by patterns.map.
list(src) == patterns[src]

-----------------------------------------------------------------------------
(* The list view: PatternGrid and WorkflowCard *)

\* A priority list that misses the last entry of the registry.
PRIORITY_PATTERNS_WITHOUT_LAST ==
    << "async-promise-hell",
       "memory-leaks",
       "api-integration",
       "state-management",
       "performance-bottleneck" >>

\* First 6 patterns should be prioritized for loading
PRIORITY_PATTERNS ==
    << "async-promise-hell",
       "memory-leaks",
       "api-integration",
       "state-management",
       "performance-bottleneck",
       "stack-trace" >>

\* Array.prototype.includes
includes(s, x) == \E i \in 1..Len(s) : s[i] = x

\* A card whose link is built from the title instead of the id.
WorkflowCardHrefByTitle(props) ==
    [href        |-> "/patterns/" \o props.title,
     image       |-> [src      |-> props.diagram,
                      alt      |-> props.title \o " workflow diagram",
                      priority |-> props.priority],
     title       |-> props.title,
     badge       |-> IF props.category = "" THEN << >> ELSE << props.category >>,
     description |-> props.description]

\* WorkflowCard with the priority prop; the badge is rendered when category
\* is truthy.
WorkflowCardPriority(props) ==
    [href        |-> "/patterns/" \o props.id,
     image       |-> [src      |-> props.diagram,
                      alt      |-> props.title \o " workflow diagram",
                      priority |-> props.priority],
     title       |-> props.title,
     badge       |-> IF props.category = "" THEN << >> ELSE << props.category >>,
     description |-> props.description]

\* A card whose badge is a fixed label instead of the category passed in.
WorkflowCardFixedBadge(props) ==
    [href        |-> "/patterns/" \o props.id,
     image       |-> [src      |-> props.diagram,
                      alt      |-> props.title \o " workflow diagram",
                      priority |-> (props.id = "async-promise-hell")],
     title       |-> props.title,
     badge       |-> << "WORKFLOW" >>,
     description |-> props.description,
     useCases    |-> slice(props.useCases, 0, 2),
     more        |-> IF Len(props.useCases) > 2
                     THEN << Len(props.useCases) - 2 >>
                     ELSE << >>]

\* A card that shows the "more" line from two use cases on.
WorkflowCardMoreFromTwo(props) ==
    [href        |-> "/patterns/" \o props.id,
     image       |-> [src      |-> props.diagram,
                      alt      |-> props.title \o " workflow diagram",
                      priority |-> (props.id = "async-promise-hell")],
     title       |-> props.title,
     badge       |-> << props.category >>,
     description |-> props.description,
     useCases    |-> slice(props.useCases, 0, 2),
     more        |-> IF Len(props.useCases) >= 2
                     THEN << Len(props.useCases) - 2 >>
                     ELSE << >>]

\* WorkflowCard with the useCases prop.
WorkflowCardUseCases(props) ==
    [href        |-> "/patterns/" \o props.id,
     image       |-> [src      |-> props.diagram,
                      alt      |-> props.title \o " workflow diagram",
                      priority |-> (props.id = "async-promise-hell")],
     title       |-> props.title,
     badge       |-> << props.category >>,
     description |-> props.description,
     useCases    |-> slice(props.useCases, 0, 2),
     more        |-> IF Len(props.useCases) > 2
                     THEN << Len(props.useCases) - 2 >>
                     ELSE << >>]

\* A grid that renders the tiles in reverse order.
PatternGridLibReversed(reg) ==
    [i \in 1..Len(reg) |->
        LET p == reg[Len(reg) + 1 - i]
        IN  [key  |-> p.id,
             card |-> WorkflowCardPriority(
                        [id          |-> p.id,
                         title       |-> p.title,
                         description |-> p.description,
                         diagram     |-> p.diagram,
                         category    |-> p.category,
                         priority    |-> includes(PRIORITY_PATTERNS, p.id)])]]

\* PatternGrid over '@/lib/patterns', with PRIORITY_PATTERNS.
PatternGridLib(reg) ==
    [i \in 1..Len(reg) |->
        [key  |-> reg[i].id,
         card |-> WorkflowCardPriority(
                    [id          |-> reg[i].id,
                     title       |-> reg[i].title,
                     description |-> reg[i].description,
                     diagram     |-> reg[i].diagram,
                     category    |-> reg[i].category,
                     priority    |-> includes(PRIORITY_PATTERNS, reg[i].id)])]]

\* PatternGrid over '@/data', with use cases.
PatternGridData(reg) ==
    [i \in 1..Len(reg) |->
        [key  |-> reg[i].id,
         card |-> WorkflowCardUseCases(
                    [id          |-> reg[i].id,
                     title       |-> reg[i].title,
                     description |-> reg[i].description,
                     diagram     |-> reg[i].diagram,
                     category    |-> reg[i].category,
                     useCases    |-> reg[i].useCases])]]

PatternGrid(src, reg) ==
    IF src = "lib" THEN PatternGridLib(reg) ELSE PatternGridData(reg)

\* The index page: Home renders PatternGrid.
Home(src) == [kind |-> "index", tiles |-> PatternGrid(src, list(src))]

-----------------------------------------------------------------------------
(* The detail view and the not-found page *)

\* Related links whose path is built from the title.
RelatedLinksByTitle(reg, id) ==
    LET related == relatedPatterns(reg, id)
    IN  [k \in 1..Len(related) |->
            [href        |-> "/patterns/" \o related[k].title,
             key         |-> related[k].id,
             title       |-> related[k].title,
             description |-> related[k].description]]

\* The "Related Patterns" links of PatternPage.
RelatedLinks(reg, id) ==
    LET related == relatedPatterns(reg, id)
    IN  [k \in 1..Len(related) |->
            [href        |-> "/patterns/" \o related[k].id,
             key         |-> related[k].id,
             title       |-> related[k].title,
             description |-> related[k].description]]

\* What PatternPage returns once currentPattern is bound.
PatternPageView(src, currentPattern) ==
    [kind        |-> "detail",
     back        |-> "/",
     title       |-> currentPattern.title,
     category    |-> currentPattern.category,
     description |-> currentPattern.description,
     diagram     |-> currentPattern.diagram,
     useCases    |-> IF src = "data" THEN currentPattern.useCases ELSE << >>,
     related     |-> RelatedLinks(patterns[src], currentPattern.id)]

\* app/not-found.tsx
NotFound ==
    [kind    |-> "not-found",
     heading |-> "404 - Page Not Found",
     home    |-> "/"]

-----------------------------------------------------------------------------
(* The client components: ImplementationBlock, LanguageToggle, CodeBlock *)

\* White space and line terminators that String.prototype.trim removes.
WhiteSpace == { " ", "\n", "\t", "\r" }

RECURSIVE trimStart(_)
trimStart(s) ==
    IF s # "" /\ SubSeq(s, 1, 1) \in WhiteSpace
    THEN trimStart(SubSeq(s, 2, Len(s)))
    ELSE s

RECURSIVE trimEnd(_)
trimEnd(s) ==
    IF s # "" /\ SubSeq(s, Len(s), Len(s)) \in WhiteSpace
    THEN trimEnd(SubSeq(s, 1, Len(s) - 1))
    ELSE s

\* code.trim()
trim(s) == trimEnd(trimStart(s))

\* A prop that may be undefined is << >> when undefined and << text >> when
\* it holds a text.
noText == << >>

\* languages={['typescript', 'python']}
ToggleLanguages == << "typescript", "python" >>

\* A selection that ignores the active language.
implementationCodeIgnoringLanguage(b, language) == b.typescript

\* const code = language === 'typescript' ? typescript : python
implementationCode(b, language) ==
    IF language = "typescript" THEN b.typescript ELSE b.python

\* What CodeBlock renders for a code prop: code.trim() inside <code>; the
\* method call on undefined throws a TypeError.
CodeBlockView(code) ==
    IF code = noText
    THEN [threw |-> TRUE,  shown |-> noText]
    ELSE [threw |-> FALSE, shown |-> << trim(code[1]) >>]

\* A CodeBlock at first render: useState(false).
NewCodeBlock(kind, typescript, python, language, code) ==
    [kind       |-> kind,
     typescript |-> typescript,
     python     |-> python,
     language   |-> language,
     clicked    |-> noText,
     code       |-> code,
     shown      |-> CodeBlockView(code).shown,
     copied     |-> FALSE,
     timers     |-> 0,
     writes     |-> << >>,
     calls      |-> 0,
     succeeded  |-> 0,
     failed     |-> 0]

\* ImplementationBlock at first render: useState('typescript').
ImplementationBlock(typescript, python) ==
    NewCodeBlock("implementation", typescript, python, "typescript",
                 implementationCode([typescript |-> typescript, python |-> python],
                                    "typescript"))

\* <CodeBlock title language code /> of a code example.
ExampleBlock(example) ==
    NewCodeBlock("example", noText, noText, example.language, << example.code >>)

\* The code blocks of the detail page over '@/data': the implementation
\* block, then one block per code example.
BlocksOf(typescript, python, codeExamples) ==
    << ImplementationBlock(typescript, python) >>
    \o [k \in 1..Len(codeExamples) |-> ExampleBlock(codeExamples[k])]

Ui(blocks) ==
    [blocks    |-> blocks,
     crashed   |-> \E k \in 1..Len(blocks) : CodeBlockView(blocks[k].code).threw,
     clipboard |-> noText,
     console   |-> 0,
     lastCall  |-> << >>]

\* No page with client components is shown.
NoUi == Ui(<< >>)

\* The components mounted by a detail page: the page over '@/lib/patterns'
\* renders its examples in plain <pre> elements.
Mounted(src, currentPattern) ==
    IF src = "data"
    THEN Ui(BlocksOf(<< currentPattern.implementation.typescript >>,
                     << currentPattern.implementation.python >>,
                     currentPattern.codeExamples))
    ELSE NoUi

-----------------------------------------------------------------------------
(* Addressing: /patterns/{id} *)

\* The characters that end a path segment in a URL.
SegmentEnd == { "/", "?", "#" }

RECURSIVE segmentFrom(_, _)
segmentFrom(path, i) ==
    IF i > Len(path) \/ SubSeq(path, i, i) \in SegmentEnd THEN ""
    ELSE SubSeq(path, i, i) \o segmentFrom(path, i + 1)

\* Percent-escapes the router decodes in a path parameter.
RECURSIVE decode(_)
decode(s) ==
    IF s = "" THEN ""
    ELSE IF Len(s) >= 3 /\ SubSeq(s, 1, 3) = "%20" THEN " " \o decode(SubSeq(s, 4, Len(s)))
    ELSE IF Len(s) >= 3 /\ SubSeq(s, 1, 3) = "%2F" THEN "/" \o decode(SubSeq(s, 4, Len(s)))
    ELSE IF Len(s) >= 3 /\ SubSeq(s, 1, 3) = "%25" THEN "%" \o decode(SubSeq(s, 4, Len(s)))
    ELSE SubSeq(s, 1, 1) \o decode(SubSeq(s, 2, Len(s)))

PatternsPrefix == "/patterns/"

\* A router that reads the parameter up to the first hyphen.
paramsUpToHyphen(path) ==
    LET n == Len(PatternsPrefix)
        RECURSIVE upTo(_)
        upTo(i) == IF i > Len(path) \/ SubSeq(path, i, i) = "-" THEN ""
                   ELSE SubSeq(path, i, i) \o upTo(i + 1)
    IN  IF Len(path) > n /\ SubSeq(path, 1, n) = PatternsPrefix
        THEN << upTo(n + 1) >>
        ELSE << >>

\* The route /patterns/[id]: the params of a path that matches it, << id >>,
\* or << >> when the path does not match (no segment, or more than one).
paramsOf(path) ==
    LET n   == Len(PatternsPrefix)
        seg == segmentFrom(path, n + 1)
        end == n + Len(seg) + 1
    IN  IF /\ Len(path) > n
           /\ SubSeq(path, 1, n) = PatternsPrefix
           /\ seg # ""
           /\ (end > Len(path) \/ SubSeq(path, end, end) # "/")
        THEN << decode(seg) >>
        ELSE << >>

-----------------------------------------------------------------------------
(* Inputs *)

RegistryIds == { libPatterns[i].id : i \in 1..Len(libPatterns) }
               \cup { dataPatterns[i].id : i \in 1..Len(dataPatterns) }

\* Identifiers no entry has: a typo, a different case, the empty string.
UnknownIds == { "unknown-pattern", "Memory-Leaks", "" }

IdUniverse == RegistryIds \cup UnknownIds

Limits == 0..MaxLimit

-----------------------------------------------------------------------------
(* The pages: one request at a time, rendered synchronously *)

NoRoute == [kind |-> "none", id |-> "", src |-> "lib", via |-> << >>, link |-> << >>]

\* A render that has not started.
NoReader ==
    [pc |-> "idle", kind |-> "none", src |-> "lib", id |-> "",
     pattern |-> undefined, page |-> [kind |-> "none"], overlapped |-> FALSE]

NoReaders == [r \in 1..NumReaders |-> NoReader]

NoCall == [src |-> "lib", id |-> "", limit |-> 0,
           getDone |-> FALSE, got |-> undefined,
           relatedDone |-> FALSE, related |-> << >>]

Init ==
    /\ patterns = [lib |-> libPatterns, data |-> dataPatterns]
    /\ pc = "idle"
    /\ route = NoRoute
    /\ pattern = undefined
    /\ error = "none"
    /\ lookups = 0
    /\ page = [kind |-> "none"]
    /\ served = 0
    /\ notFounds = 0
    /\ listed = [src \in Sources |-> << >>]
    /\ fn = NoCall
    /\ ui = NoUi
    /\ readers = NoReaders

\* The last two reads of the list, the newest last.
Remember(log, entry) ==
    IF Len(log) < 2 THEN Append(log, entry) ELSE << log[2], entry >>

\* GET / : Home renders PatternGrid, which maps over the whole registry.
RequestIndex(src) ==
    /\ pc = "idle"
    /\ served < MaxRequests
    /\ route' = [kind |-> "index", id |-> "", src |-> src, via |-> << >>,
                 link |-> << >>]
    /\ page' = Home(src)
    /\ listed' = [listed EXCEPT ![src] =
                     Remember(@, [at |-> served + 1, result |-> list(src)])]
    /\ served' = served + 1
    /\ pattern' = undefined
    /\ error' = "none"
    /\ lookups' = 0
    /\ ui' = NoUi
    /\ UNCHANGED <<patterns, pc, notFounds, fn, readers>>

\* GET /patterns/{id} : the router calls PatternPage with params.id.
RequestDetail(src, id) ==
    /\ pc = "idle"
    /\ served < MaxRequests
    /\ route' = [kind |-> "detail", id |-> id, src |-> src, via |-> << >>,
                 link |-> << >>]
    /\ page' = [kind |-> "pending"]
    /\ pattern' = undefined
    /\ error' = "none"
    /\ lookups' = 0
    /\ served' = served + 1
    /\ pc' = "find"
    /\ ui' = NoUi
    /\ UNCHANGED <<patterns, notFounds, listed, fn, readers>>

\* A click on tile i of the list view: the Link navigates to the tile's href,
\* the router matches /patterns/[id] and calls PatternPage with params.id.
\* A path that matches no route is answered with the not-found page.
ClickTile(src, i) ==
    /\ pc = "idle"
    /\ served < MaxRequests
    /\ page.kind = "index"
    /\ LET params == paramsOf(page.tiles[i].card.href)
       IN  IF params = << >>
           THEN /\ route' = [kind |-> "unmatched", id |-> "", src |-> src,
                             via |-> << page.tiles[i] >>,
                             link |-> << page.tiles[i].card.href >>]
                /\ page' = NotFound
                /\ notFounds' = notFounds + 1
                /\ pc' = "idle"
           ELSE /\ route' = [kind |-> "detail", id |-> params[1], src |-> src,
                             via |-> << page.tiles[i] >>,
                             link |-> << page.tiles[i].card.href >>]
                /\ page' = [kind |-> "pending"]
                /\ notFounds' = notFounds
                /\ pc' = "find"
    /\ pattern' = undefined
    /\ error' = "none"
    /\ lookups' = 0
    /\ served' = served + 1
    /\ ui' = NoUi
    /\ UNCHANGED <<patterns, listed, fn, readers>>

\* The router follows a Link with the given href from the page shown: "/"
\* renders Home, a path matching /patterns/[id] calls PatternPage, any other
\* path is answered with the not-found page.
Follow(src, href) ==
    /\ pc = "idle"
    /\ served < MaxRequests
    /\ LET params == paramsOf(href)
       IN  IF href = "/"
           THEN /\ route' = [kind |-> "index", id |-> "", src |-> src,
                             via |-> << >>, link |-> << href >>]
                /\ page' = Home(src)
                /\ listed' = [listed EXCEPT ![src] =
                                 Remember(@, [at |-> served + 1, result |-> list(src)])]
                /\ notFounds' = notFounds
                /\ pc' = "idle"
           ELSE IF params = << >>
           THEN /\ route' = [kind |-> "unmatched", id |-> "", src |-> src,
                             via |-> << >>, link |-> << href >>]
                /\ page' = NotFound
                /\ listed' = listed
                /\ notFounds' = notFounds + 1
                /\ pc' = "idle"
           ELSE /\ route' = [kind |-> "detail", id |-> params[1], src |-> src,
                             via |-> << >>, link |-> << href >>]
                /\ page' = [kind |-> "pending"]
                /\ listed' = listed
                /\ notFounds' = notFounds
                /\ pc' = "find"
    /\ pattern' = undefined
    /\ error' = "none"
    /\ lookups' = 0
    /\ served' = served + 1
    /\ ui' = NoUi
    /\ UNCHANGED <<patterns, fn, readers>>

\* A click on related-pattern link k of the detail view.
ClickRelated(k) ==
    /\ page.kind = "detail"
    /\ Follow(route.src, page.related[k].href)

\* A click on "Back to patterns" of the detail view or on the homepage link
\* of the not-found page.
ClickBack ==
    /\ page.kind \in {"detail", "not-found"}
    /\ Follow(route.src, IF page.kind = "detail" THEN page.back ELSE page.home)

\* const pattern = patterns.find(p => p.id === params.id)
Find ==
    /\ pc = "find"
    /\ pattern' = find(patterns[route.src], route.id)
    /\ patterns' = [patterns EXCEPT ![route.src] = arrayAfterFind(@, route.id)]
    /\ lookups' = lookups + 1
    /\ pc' = "guard"
    /\ UNCHANGED <<route, error, page, served, notFounds, listed, fn, ui, readers>>

\* A guard whose notFound() returns: control falls through to the render.
GuardNotFoundFallsThrough ==
    /\ pc = "guard"
    /\ falsy(pattern)
    /\ page' = [kind |-> "detail"]
    /\ pc' = "idle"
    /\ UNCHANGED <<patterns, route, pattern, error, lookups, served, notFounds,
                   listed, fn, ui, readers>>

\* if (!pattern) { notFound() } : notFound() throws and never returns.
GuardNotFound ==
    /\ pc = "guard"
    /\ falsy(pattern)
    /\ error' = "NEXT_NOT_FOUND"
    /\ pc' = "boundary"
    /\ UNCHANGED <<patterns, route, pattern, lookups, page, served, notFounds,
                   listed, fn, ui, readers>>

\* A boundary that retries the lookup instead of answering.
RetryOnNotFound ==
    /\ pc = "boundary"
    /\ error = "NEXT_NOT_FOUND"
    /\ error' = "none"
    /\ pc' = "find"
    /\ UNCHANGED <<patterns, route, pattern, lookups, page, served, notFounds,
                   listed, fn, ui, readers>>

\* The rendering boundary answers the thrown signal with app/not-found.tsx.
RenderNotFound ==
    /\ pc = "boundary"
    /\ error = "NEXT_NOT_FOUND"
    /\ page' = NotFound
    /\ notFounds' = notFounds + 1
    /\ pc' = "idle"
    /\ UNCHANGED <<patterns, route, pattern, error, lookups, served, listed, fn, ui, readers>>

\* const currentPattern: Pattern = pattern; return ( ... )
Render ==
    /\ pc = "guard"
    /\ ~falsy(pattern)
    /\ page' = PatternPageView(route.src, pattern)
    /\ patterns' = [patterns EXCEPT ![route.src] = arrayAfterFilter(@, pattern.id)]
    /\ ui' = Mounted(route.src, pattern)
    /\ pc' = "idle"
    /\ UNCHANGED <<route, pattern, error, lookups, served, notFounds, listed, fn, readers>>

Next ==
    \/ \E src \in Sources : RequestIndex(src)
    \/ \E src \in Sources, id \in IdUniverse : RequestDetail(src, id)
    \/ \E src \in Sources :
          \E i \in (IF page.kind = "index" THEN 1..Len(page.tiles) ELSE {}) :
              ClickTile(src, i)
    \/ \E k \in (IF page.kind = "detail" THEN 1..Len(page.related) ELSE {}) :
          ClickRelated(k)
    \/ ClickBack
    \/ Find
    \/ GuardNotFound
    \/ RenderNotFound
    \/ Render

Spec == Init /\ [][Next]_vars

-----------------------------------------------------------------------------
(* The registry operations applied to drawn inputs *)

InitFn ==
    /\ patterns = [lib |-> libPatterns, data |-> dataPatterns]
    /\ pc = "idle"
    /\ route = NoRoute
    /\ pattern = undefined
    /\ error = "none"
    /\ lookups = 0
    /\ page = [kind |-> "none"]
    /\ served = 0
    /\ notFounds = 0
    /\ listed = [src \in Sources |-> << >>]
    /\ ui = NoUi
    /\ readers = NoReaders
    /\ \E src \in Sources, id \in IdUniverse, limit \in Limits :
          fn = [NoCall EXCEPT !.src = src, !.id = id, !.limit = limit]

\* get(id)
ApplyGet ==
    /\ ~fn.getDone
    /\ fn' = [fn EXCEPT !.getDone = TRUE,
                        !.got = find(patterns[fn.src], fn.id)]
    /\ patterns' = [patterns EXCEPT ![fn.src] = arrayAfterFind(@, fn.id)]
    /\ UNCHANGED <<pc, route, pattern, error, lookups, page, served,
                   notFounds, listed, ui, readers>>

\* relatedTo(id, limit)
ApplyRelatedTo ==
    /\ ~fn.relatedDone
    /\ fn' = [fn EXCEPT !.relatedDone = TRUE,
                        !.related = relatedTo(patterns[fn.src], fn.id, fn.limit)]
    /\ patterns' = [patterns EXCEPT ![fn.src] = arrayAfterFilter(@, fn.id)]
    /\ UNCHANGED <<pc, route, pattern, error, lookups, page, served,
                   notFounds, listed, ui, readers>>

NextFn == ApplyGet \/ ApplyRelatedTo

SpecFn == InitFn /\ [][NextFn]_vars

-----------------------------------------------------------------------------
(* WorkflowCard applied to drawn use-case lists *)

\* Use cases as the records state them.
UseCaseTexts == { "Error tracking", "Stack trace analysis", "Error boundaries" }

RECURSIVE listsOfLength(_)
listsOfLength(n) ==
    IF n = 0 THEN { << >> }
    ELSE { Append(l, t) : l \in listsOfLength(n - 1), t \in UseCaseTexts }

\* The use-case lists a Pattern can carry, up to MaxUseCases entries.
UseCaseLists == UNION { listsOfLength(n) : n \in 0..MaxUseCases }

InitCard ==
    /\ patterns = [lib |-> libPatterns, data |-> dataPatterns]
    /\ pc = "idle"
    /\ route = NoRoute
    /\ pattern = undefined
    /\ error = "none"
    /\ lookups = 0
    /\ page = [kind |-> "none"]
    /\ served = 0
    /\ notFounds = 0
    /\ listed = [src \in Sources |-> << >>]
    /\ ui = NoUi
    /\ readers = NoReaders
    /\ \E l \in UseCaseLists :
          fn = [useCases |-> l, done |-> FALSE, card |-> << >>]

\* <WorkflowCard ... useCases={pattern.useCases} /> for a Pattern with the
\* drawn use cases.
ApplyWorkflowCard ==
    /\ ~fn.done
    /\ fn' = [fn EXCEPT !.done = TRUE,
                        !.card = << WorkflowCardUseCases(
                                      [id          |-> stackTracePattern.id,
                                       title       |-> stackTracePattern.title,
                                       description |-> stackTracePattern.description,
                                       diagram     |-> stackTracePattern.diagram,
                                       category    |-> stackTracePattern.category,
                                       useCases    |-> fn.useCases]) >>]
    /\ UNCHANGED <<patterns, pc, route, pattern, error, lookups, page, served,
                   notFounds, listed, ui, readers>>

NextCard == ApplyWorkflowCard

SpecCard == InitCard /\ [][NextCard]_vars

-----------------------------------------------------------------------------
(* The client components as a machine: language toggles and copy actions *)

pageVars == <<patterns, pc, route, pattern, error, lookups, page, served,
              notFounds, listed, fn, readers>>

RECURSIVE callsFrom(_, _)
callsFrom(blocks, k) ==
    IF k > Len(blocks) THEN 0 ELSE blocks[k].calls + callsFrom(blocks, k + 1)

\* The number of copy actions started on the page shown.
totalCalls(blocks) == callsFrom(blocks, 1)

without(s, j) == SubSeq(s, 1, j - 1) \o SubSeq(s, j + 1, Len(s))

\* A toggle that switches to the other language whichever button is clicked.
ToggleLanguageFlipping(k, lang) ==
    /\ ~ui.crashed
    /\ ui.blocks[k].kind = "implementation"
    /\ LET other == IF ui.blocks[k].language = "typescript"
                    THEN "python" ELSE "typescript"
           code  == implementationCode(ui.blocks[k], other)
           view  == CodeBlockView(code)
       IN  ui' = [ui EXCEPT !.blocks[k].language = other,
                            !.blocks[k].clicked = << lang >>,
                            !.blocks[k].code = code,
                            !.blocks[k].shown = view.shown,
                            !.crashed = view.threw]
    /\ UNCHANGED pageVars

\* A click on a button of the LanguageToggle of block k; the button clicked
\* last is remembered in clicked.
\* onClick={() => onChange(lang)} is setLanguage(lang); ImplementationBlock
\* re-renders and passes the text of that language to CodeBlock.
ToggleLanguage(k, lang) ==
    /\ ~ui.crashed
    /\ ui.blocks[k].kind = "implementation"
    /\ LET code == implementationCode(ui.blocks[k], lang)
           view == CodeBlockView(code)
       IN  ui' = [ui EXCEPT !.blocks[k].language = lang,
                            !.blocks[k].clicked = << lang >>,
                            !.blocks[k].code = code,
                            !.blocks[k].shown = view.shown,
                            !.crashed = view.threw]
    /\ UNCHANGED pageVars

\* A click on the copy button of block k: copyToClipboard runs up to
\* await navigator.clipboard.writeText(code), with the code of this render.
CopyClick(k) ==
    /\ ~ui.crashed
    /\ totalCalls(ui.blocks) < MaxCopies
    /\ LET b == ui.blocks[k]
       IN  ui' = [ui EXCEPT !.blocks[k].writes = Append(@, b.code[1]),
                            !.blocks[k].calls = @ + 1,
                            !.lastCall = << [block    |-> k,
                                             text     |-> b.code[1],
                                             language |-> b.language,
                                             shown    |-> b.shown[1]] >>]
    /\ UNCHANGED pageVars

\* The write j of block k is fulfilled: setCopied(true) and
\* setTimeout(() => setCopied(false), 2000).
WriteResolves(k, j) ==
    /\ ~ui.crashed
    /\ j \in 1..Len(ui.blocks[k].writes)
    /\ ui' = [ui EXCEPT !.clipboard = << ui.blocks[k].writes[j] >>,
                        !.blocks[k].writes = without(@, j),
                        !.blocks[k].copied = TRUE,
                        !.blocks[k].timers = @ + 1,
                        !.blocks[k].succeeded = @ + 1]
    /\ UNCHANGED pageVars

\* A rejection handled in a finally block that also marks the block copied.
WriteRejectsMarkingCopied(k, j) ==
    /\ ~ui.crashed
    /\ j \in 1..Len(ui.blocks[k].writes)
    /\ ui' = [ui EXCEPT !.console = @ + 1,
                        !.blocks[k].writes = without(@, j),
                        !.blocks[k].copied = TRUE,
                        !.blocks[k].timers = @ + 1,
                        !.blocks[k].failed = @ + 1]
    /\ UNCHANGED pageVars

\* The write j of block k is rejected: catch (err) { console.error(...) }.
WriteRejects(k, j) ==
    /\ ~ui.crashed
    /\ j \in 1..Len(ui.blocks[k].writes)
    /\ ui' = [ui EXCEPT !.console = @ + 1,
                        !.blocks[k].writes = without(@, j),
                        !.blocks[k].failed = @ + 1]
    /\ UNCHANGED pageVars

\* A timer callback that leaves the indicator set.
TimerFiresKeepingCopied(k) ==
    /\ ~ui.crashed
    /\ ui.blocks[k].timers > 0
    /\ ui' = [ui EXCEPT !.blocks[k].timers = @ - 1]
    /\ UNCHANGED pageVars

\* A timer of block k expires: setCopied(false). All timers of a block run
\* for the same 2000 ms, so the one that expires is the oldest one pending.
TimerFires(k) ==
    /\ ~ui.crashed
    /\ ui.blocks[k].timers > 0
    /\ ui' = [ui EXCEPT !.blocks[k].copied = FALSE,
                        !.blocks[k].timers = @ - 1]
    /\ UNCHANGED pageVars

NextUi ==
    \E k \in 1..Len(ui.blocks) :
        \/ \E i \in 1..Len(ToggleLanguages) : ToggleLanguage(k, ToggleLanguages[i])
        \/ CopyClick(k)
        \/ \E j \in 1..MaxCopies : WriteResolves(k, j)
        \/ \E j \in 1..MaxCopies : WriteRejects(k, j)
        \/ TimerFires(k)

\* The implementation of the scenario
\* implementation = {typescript: "...", python: undefined}.
typescriptOnly == [typescript |-> << "..." >>, python |-> noText]

\* The detail pages whose components are exercised: one per shipped rich
\* record, and one showing the implementation without a python text.
InitUi ==
    /\ patterns = [lib |-> libPatterns, data |-> dataPatterns]
    /\ pc = "idle"
    /\ route = NoRoute
    /\ pattern = undefined
    /\ error = "none"
    /\ lookups = 0
    /\ page = [kind |-> "none"]
    /\ served = 0
    /\ notFounds = 0
    /\ listed = [src \in Sources |-> << >>]
    /\ fn = NoCall
    /\ readers = NoReaders
    /\ \/ \E i \in 1..Len(dataPatterns) : ui = Mounted("data", dataPatterns[i])
       \/ ui = Ui(BlocksOf(typescriptOnly.typescript, typescriptOnly.python, << >>))

SpecUi == InitUi /\ [][NextUi]_vars

\* The timers of setTimeout: a timer that was started expires.
TimersExpire == WF_vars(\E k \in 1..Len(ui.blocks) : TimerFires(k))

SpecUiFair == SpecUi /\ TimersExpire

\* The pages and their client components together.
NextAll == (Next /\ served' <= MaxVisits) \/ NextUi

SpecAll == Init /\ [][NextAll]_vars

-----------------------------------------------------------------------------
(* Page renders in progress at the same time over the shared registry *)

\* The ids requested by the concurrent renders: the first and the last
\* entry, and one that no entry has.
ReaderIds == { "async-promise-hell", "stack-trace", "unknown-pattern" }

readerVars == <<pc, route, pattern, error, lookups, page, served, notFounds,
                listed, fn, ui>>

\* Another render reads the registry while a render is between its steps.
Overlap(r) ==
    [q \in 1..NumReaders |->
        IF q # r /\ readers[q].pc \in {"find", "guard", "boundary"}
        THEN [readers[q] EXCEPT !.overlapped = TRUE]
        ELSE readers[q]]

\* Render r starts on the index page: Home renders PatternGrid over the list.
ReaderIndex(r, src) ==
    /\ readers[r].pc \in {"idle", "done"}
    /\ readers' = [Overlap(r) EXCEPT ![r] =
                      [NoReader EXCEPT !.pc = "done", !.kind = "index",
                                       !.src = src, !.page = Home(src)]]
    /\ UNCHANGED patterns
    /\ UNCHANGED readerVars

\* Render r starts on /patterns/{id}.
ReaderDetail(r, src, id) ==
    /\ readers[r].pc \in {"idle", "done"}
    /\ readers' = [readers EXCEPT ![r] =
                      [NoReader EXCEPT !.pc = "find", !.kind = "detail",
                                       !.src = src, !.id = id]]
    /\ UNCHANGED patterns
    /\ UNCHANGED readerVars

\* const pattern = patterns.find(p => p.id === params.id)
ReaderFind(r) ==
    /\ readers[r].pc = "find"
    /\ readers' = [Overlap(r) EXCEPT ![r].pattern =
                                        find(patterns[readers[r].src], readers[r].id),
                                     ![r].pc = "guard"]
    /\ patterns' = [patterns EXCEPT ![readers[r].src] =
                                       arrayAfterFind(@, readers[r].id)]
    /\ UNCHANGED readerVars

\* if (!pattern) { notFound() }
ReaderGuardNotFound(r) ==
    /\ readers[r].pc = "guard"
    /\ falsy(readers[r].pattern)
    /\ readers' = [readers EXCEPT ![r].pc = "boundary"]
    /\ UNCHANGED patterns
    /\ UNCHANGED readerVars

\* The rendering boundary answers with app/not-found.tsx.
ReaderRenderNotFound(r) ==
    /\ readers[r].pc = "boundary"
    /\ readers' = [readers EXCEPT ![r].page = NotFound, ![r].pc = "done"]
    /\ UNCHANGED patterns
    /\ UNCHANGED readerVars

\* return ( ... ) with the related patterns filtered and sliced.
ReaderRender(r) ==
    /\ readers[r].pc = "guard"
    /\ ~falsy(readers[r].pattern)
    /\ readers' = [Overlap(r) EXCEPT ![r].page =
                                        PatternPageView(readers[r].src,
                                                        readers[r].pattern),
                                     ![r].pc = "done"]
    /\ patterns' = [patterns EXCEPT ![readers[r].src] =
                                       arrayAfterFilter(@, readers[r].pattern.id)]
    /\ UNCHANGED readerVars

NextConc ==
    \E r \in 1..NumReaders :
        \/ \E src \in Sources : ReaderIndex(r, src)
        \/ \E src \in Sources, id \in ReaderIds : ReaderDetail(r, src, id)
        \/ ReaderFind(r)
        \/ ReaderGuardNotFound(r)
        \/ ReaderRenderNotFound(r)
        \/ ReaderRender(r)

SpecConc == Init /\ [][NextConc]_vars

-----------------------------------------------------------------------------
(* Properties *)

Min(a, b) == IF a < b THEN a ELSE b

HasId(reg, id) == \E i \in 1..Len(reg) : reg[i].id = id

IdsOf(seq) == [i \in 1..Len(seq) |-> seq[i].id]

DeclarationOrder ==
    << "async-promise-hell", "memory-leaks", "api-integration",
       "state-management", "performance-bottleneck", "stack-trace" >>

\* C1: get(id) yields the registry entry whose id equals the input when some
\* entry has that id, and the not-found value otherwise; it never yields an
\* entry with a different id.
C1_GetYieldsEntryOrNotFound ==
    fn.getDone =>
        LET reg == patterns[fn.src]
        IN  IF HasId(reg, fn.id)
            THEN /\ fn.got # undefined
                 /\ fn.got.id = fn.id
                 /\ \E i \in 1..Len(reg) : reg[i] = fn.got
                 /\ \A i \in 1..Len(reg) : reg[i].id = fn.id => fn.got = reg[i]
            ELSE fn.got = undefined

C1_Witness ==
    /\ fn.getDone
    /\ fn.id = "stack-trace"
    /\ fn.got # undefined
    /\ fn.got.title = "Stack Trace Analyzer"

\* C2: in both registries no two entries at different positions have the
\* same id.
C2_IdsUnique ==
    \A src \in Sources :
        \A i, j \in 1..Len(patterns[src]) :
            i # j => patterns[src][i].id # patterns[src][j].id

C2_Witness ==
    /\ Len(patterns.lib) = Len(DeclarationOrder)
    /\ Len(patterns.data) = Len(DeclarationOrder)
    /\ page.kind = "index"
    /\ route.src = "data"

\* C3: the result of relatedTo(id, limit) contains no Pattern whose id
\* equals id, for every id and every limit.
C3_RelatedExcludesSelf ==
    fn.relatedDone =>
        \A k \in 1..Len(fn.related) : fn.related[k].id # fn.id

C3_Witness ==
    /\ fn.relatedDone
    /\ fn.id = "async-promise-hell"
    /\ fn.limit >= Len(patterns[fn.src])
    /\ Len(fn.related) = Len(patterns[fn.src]) - 1

C5_RelatedIsPrefixOfOthers ==
    fn.relatedDone =>
        LET reg  == patterns[fn.src]
            here == HasId(reg, fn.id)
            pos  == IF here
                    THEN CHOOSE i \in 1..Len(reg) : reg[i].id = fn.id
                    ELSE Len(reg) + 1
            at(k) == IF k < pos THEN k ELSE k + 1
            n    == Len(fn.related)
        IN  /\ n = Min(fn.limit, IF here THEN Len(reg) - 1 ELSE Len(reg))
            /\ \A k \in 1..n : fn.related[k] = reg[at(k)]
            /\ \A j, k \in 1..n :
                  j < k => \E a, b \in 1..Len(reg) :
                              /\ a < b
                              /\ reg[a] = fn.related[j]
                              /\ reg[b] = fn.related[k]
            /\ \A j, k \in 1..n : j # k => fn.related[j] # fn.related[k]

C5_Witness ==
    /\ fn.relatedDone
    /\ fn.id = "memory-leaks"
    /\ fn.limit = 3
    /\ IdsOf(fn.related) =
          << "async-promise-hell", "api-integration", "state-management" >>

\* C6: looking up an id that no entry has returns the absence value and
\* control stays on the normal path: the lookup step always completes, and
\* after it the page holds undefined, no error has been raised and the
\* lookup ran once.
C6_GetNeverThrows ==
    /\ pc = "find" => ENABLED Find
    /\ (pc = "guard" /\ ~HasId(patterns[route.src], route.id)) =>
          /\ pattern = undefined
          /\ error = "none"
          /\ lookups = 1

C6_Witness ==
    /\ pc = "guard"
    /\ route.id = "Memory-Leaks"
    /\ pattern = undefined
    /\ error = "none"

\* C7: a detail request with an id no entry has ends in the not-found page,
\* renders no pattern content, is not retried and leaves the application
\* able to serve the next request; a request with a known id never raises
\* the not-found signal and ends in the detail view.
C7_NotFoundOutcome ==
    /\ pc # "idle" => ENABLED Next
    /\ (pc = "idle" /\ served < MaxRequests) =>
          /\ \A src \in Sources : ENABLED RequestIndex(src)
          /\ \A src \in Sources, id \in IdUniverse : ENABLED RequestDetail(src, id)
    /\ route.kind = "detail" =>
          IF HasId(patterns[route.src], route.id)
          THEN /\ error = "none"
               /\ page.kind \in {"pending", "detail"}
               /\ pc = "idle" => page.kind = "detail"
          ELSE /\ page.kind \in {"pending", "not-found"}
               /\ lookups <= 1
               /\ pc = "idle" => (page = NotFound /\ error = "NEXT_NOT_FOUND")

C7_Witness ==
    /\ notFounds > 0
    /\ pc = "idle"
    /\ route.kind = "detail"
    /\ page.kind = "detail"
    /\ page.title = "API Integration"

\* C8: for every id of the registry the detail view shows the Pattern with
\* that id and a related list equal to relatedTo(id, 2): with the shipped
\* registries exactly two entries, neither the current pattern, namely the
\* first two registry entries other than the current one.
C8_DetailView ==
    page.kind = "detail" =>
        LET reg == patterns[route.src]
        IN  \E i \in 1..Len(reg) :
              /\ reg[i].id = route.id
              /\ page.title = reg[i].title
              /\ page.category = reg[i].category
              /\ page.description = reg[i].description
              /\ page.diagram = reg[i].diagram
              /\ Len(page.related) = 2
              /\ \A k \in 1..Len(page.related) : page.related[k].key # route.id
              /\ LET a == IF i = 1 THEN 2 ELSE 1
                     b == IF i <= 2 THEN 3 ELSE 2
                 IN  /\ page.related[1].key = reg[a].id
                     /\ page.related[1].href = "/patterns/" \o reg[a].id
                     /\ page.related[1].title = reg[a].title
                     /\ page.related[1].description = reg[a].description
                     /\ page.related[2].key = reg[b].id
                     /\ page.related[2].href = "/patterns/" \o reg[b].id
                     /\ page.related[2].title = reg[b].title
                     /\ page.related[2].description = reg[b].description

C8_Witness ==
    /\ page.kind = "detail"
    /\ route.id = "async-promise-hell"
    /\ route.src = "data"
    /\ page.title = "Promise Chaining"
    /\ page.related[1].key = "memory-leaks"
    /\ page.related[2].key = "api-integration"

\* C9: the list view has one tile per registry entry, tile i carrying the
\* id, title, description, category and diagram of entry i: as many tiles
\* as entries, in registry order, none filtered out, duplicated or moved.
C9_ListView ==
    page.kind = "index" =>
        LET reg == patterns[route.src]
        IN  /\ Len(page.tiles) = Len(reg)
            /\ \A i \in 1..Len(reg) :
                  /\ page.tiles[i].key = reg[i].id
                  /\ page.tiles[i].card.href = "/patterns/" \o reg[i].id
                  /\ page.tiles[i].card.title = reg[i].title
                  /\ page.tiles[i].card.description = reg[i].description
                  /\ page.tiles[i].card.badge = << reg[i].category >>
                  /\ page.tiles[i].card.image.src = reg[i].diagram
            /\ \A i, j \in 1..Len(page.tiles) :
                  i # j => page.tiles[i].key # page.tiles[j].key

C9_Witness ==
    /\ page.kind = "index"
    /\ route.src = "lib"
    /\ Len(page.tiles) = Len(DeclarationOrder)
    /\ page.tiles[3].key = "api-integration"
    /\ page.tiles[3].card.title = "API Integration"

\* C10: every read of the list returns all registry entries in declaration
\* order, and two reads of the same registry return the same sequence
\* whatever requests were served between them.
C10_ListStable ==
    \A src \in Sources :
        /\ \A i \in 1..Len(listed[src]) :
              IdsOf(listed[src][i].result) = DeclarationOrder
        /\ \A i, j \in 1..Len(listed[src]) :
              listed[src][i].result = listed[src][j].result

C10_Witness ==
    /\ Len(listed.data) = 2
    /\ listed.lib = << >>
    /\ listed.data[2].at = listed.data[1].at + 3
    /\ notFounds = 1

\* C11: following the link of any tile of the list view resolves in the
\* detail view to a found Pattern, never to not-found, whose id, title,
\* description, category and diagram equal those shown on the tile, also
\* when the list and the detail view read different registries.
C11_ListToDetailRoundTrip ==
    route.via # << >> =>
        LET tile == route.via[1]
        IN  /\ route.kind = "detail"
            /\ route.id = tile.key
            /\ error = "none"
            /\ page.kind \in {"pending", "detail"}
            /\ pc = "idle" =>
                  /\ page.kind = "detail"
                  /\ page.title = tile.card.title
                  /\ page.description = tile.card.description
                  /\ << page.category >> = tile.card.badge
                  /\ page.diagram = tile.card.image.src
                  /\ \E i \in 1..Len(patterns[route.src]) :
                        /\ patterns[route.src][i].id = tile.key
                        /\ patterns[route.src][i].title = page.title

C11_Witness ==
    /\ route.via # << >>
    /\ pc = "idle"
    /\ page.kind = "detail"
    /\ route.src = "data"
    /\ route.via[1].card.image.priority = TRUE
    /\ route.via[1].key = "state-management"
    /\ page.title = "State Management"

\* C12: the two registries hold the same ids in the same order, the
\* declaration order, and entries with the same id agree on title,
\* description, category and diagram; hence get and relatedTo return
\* id-for-id the same results on either registry.
C12_SimpleIsProjectionOfRich ==
    LET lib  == patterns.lib
        data == patterns.data
        other == IF fn.src = "lib" THEN data ELSE lib
    IN  /\ IdsOf(lib) = DeclarationOrder
        /\ IdsOf(data) = DeclarationOrder
        /\ \A i \in 1..Len(lib), j \in 1..Len(data) :
              lib[i].id = data[j].id =>
                 /\ lib[i].title = data[j].title
                 /\ lib[i].description = data[j].description
                 /\ lib[i].category = data[j].category
                 /\ lib[i].diagram = data[j].diagram
        /\ fn.getDone =>
              IF fn.got = undefined
              THEN ~HasId(other, fn.id)
              ELSE \E j \in 1..Len(other) :
                      /\ other[j].id = fn.got.id
                      /\ other[j].title = fn.got.title
                      /\ \A k \in 1..(j - 1) : other[k].id # fn.id
        /\ fn.relatedDone =>
              /\ Len(fn.related) = Min(fn.limit, Len(filter(other, fn.id)))
              /\ \A k \in 1..Len(fn.related) :
                    fn.related[k].id = filter(other, fn.id)[k].id

C12_Witness ==
    /\ fn.getDone
    /\ fn.relatedDone
    /\ fn.src = "lib"
    /\ fn.id = "performance-bottleneck"
    /\ fn.limit = 4
    /\ fn.got # undefined
    /\ fn.got.title = "Performance Bottleneck"
    /\ IdsOf(fn.related) = << "async-promise-hell", "memory-leaks",
                              "api-integration", "state-management" >>


\* C13: the registry is never mutated. After any sequence of list reads,
\* lookups, related-pattern computations, list and detail renders (found or
\* not found), language toggles and copy actions, both registries have the
\* length, the order and the records they were constructed with.
C13_RegistryNeverMutated ==
    /\ patterns = [lib |-> libPatterns, data |-> dataPatterns]
    /\ \A src \in Sources :
          /\ Len(patterns[src]) = 6
          /\ IdsOf(patterns[src]) = DeclarationOrder

\* A detail page reached through the list view, with a language toggled and
\* a copy that succeeded.
C13_Witness ==
    /\ listed["data"] # << >>
    /\ route.via # << >>
    /\ page.kind = "detail"
    /\ lookups > 0
    /\ ui.blocks # << >>
    /\ ui.blocks[1].language = "python"
    /\ ui.blocks[1].succeeded > 0


\* The registry as constructed.
constructed == [lib |-> libPatterns, data |-> dataPatterns]

\* What a render returns when it runs alone on the registry as constructed.
alone(kind, src, id) ==
    LET reg == constructed[src]
        p   == find(reg, id)
    IN  IF kind = "index"
        THEN [kind |-> "index", tiles |-> PatternGrid(src, reg)]
        ELSE IF falsy(p)
             THEN NotFound
             ELSE [PatternPageView(src, p) EXCEPT
                      !.related = RelatedLinks(reg, p.id)]

\* C14: concurrent readers need no coordination. In every interleaving of
\* the steps of several page renders, each lookup returns what it returns
\* on the registry as constructed, each finished render shows the page it
\* shows when run alone, and no render sees a changed registry.
C14_ReadersIndependent ==
    /\ patterns = constructed
    /\ \A r \in 1..NumReaders :
          /\ readers[r].pc \in {"guard", "boundary", "done"}
             /\ readers[r].kind = "detail" =>
                readers[r].pattern = find(constructed[readers[r].src], readers[r].id)
          /\ readers[r].pc = "done" =>
                readers[r].page = alone(readers[r].kind, readers[r].src, readers[r].id)

\* Two renders of the same registry overlapped: one has finished a detail
\* page while the other, which read the registry in between, is still
\* between its lookup and its render.
C14_Witness ==
    /\ readers[1].pc = "done"
    /\ readers[1].page.kind = "detail"
    /\ readers[1].overlapped
    /\ readers[2].pc = "guard"
    /\ readers[2].overlapped
    /\ readers[2].src = readers[1].src
    /\ ~falsy(readers[2].pattern)


\* C15: missing language entry. An implementation with a typescript text and
\* no python text renders a usable block that exposes the typescript
\* example, and no error is raised in any state the block can reach, at
\* first render or after any language toggle.
C15_MissingPythonUsable ==
    \A k \in 1..Len(ui.blocks) :
        /\ ui.blocks[k].kind = "implementation"
        /\ ui.blocks[k].typescript # noText
        /\ ui.blocks[k].python = noText
        => /\ ~ui.crashed
           /\ ui.blocks[k].shown = << trim(ui.blocks[k].typescript[1]) >>


RECURSIVE failedFrom(_, _)
failedFrom(blocks, k) ==
    IF k > Len(blocks) THEN 0 ELSE blocks[k].failed + failedFrom(blocks, k + 1)

\* C16: a clipboard failure is contained. Every failed write is logged
\* once, none is retried (each copy action accounts for exactly one write,
\* in flight, fulfilled or rejected), the copied indicator is set only by
\* a write that succeeded, no error leaves copyToClipboard (the only error
\* a block raises is the render of a missing text), and the registry with
\* everything read from it is unchanged.
C16_ClipboardFailureContained ==
    /\ ui.console = failedFrom(ui.blocks, 1)
    /\ \A k \in 1..Len(ui.blocks) :
          LET b == ui.blocks[k]
          IN  /\ b.calls = Len(b.writes) + b.succeeded + b.failed
              /\ b.copied => b.succeeded > 0
              /\ b.timers <= b.succeeded
    /\ ui.crashed => \E k \in 1..Len(ui.blocks) : ui.blocks[k].code = noText
    /\ patterns = constructed
    /\ \A src \in Sources, id \in IdUniverse :
          /\ list(src) = constructed[src]
          /\ find(patterns[src], id) = find(constructed[src], id)
          /\ relatedPatterns(patterns[src], id) = relatedPatterns(constructed[src], id)

\* A copy action whose write failed and left the indicator unset, on a page
\* where another copy succeeded.
C16_Witness ==
    \E k \in 1..Len(ui.blocks) :
        /\ ui.blocks[k].failed > 0
        /\ ui.blocks[k].succeeded = 0
        /\ ~ui.blocks[k].copied
        /\ ui.blocks[k].writes = << >>
        /\ ui.console > 0
        /\ \E q \in 1..Len(ui.blocks) : ui.blocks[q].copied


RECURSIVE allWhiteSpace(_)
allWhiteSpace(s) ==
    s = "" \/ (SubSeq(s, 1, 1) \in WhiteSpace /\ allWhiteSpace(SubSeq(s, 2, Len(s))))

\* shown is text without the white space around it.
surroundedByWhiteSpace(text, shown) ==
    /\ Len(shown) <= Len(text)
    /\ \E i \in 0..(Len(text) - Len(shown)) :
          /\ SubSeq(text, i + 1, i + Len(shown)) = shown
          /\ allWhiteSpace(SubSeq(text, 1, i))
          /\ allWhiteSpace(SubSeq(text, i + Len(shown) + 1, Len(text)))
    /\ shown # "" => /\ SubSeq(shown, 1, 1) \notin WhiteSpace
                     /\ SubSeq(shown, Len(shown), Len(shown)) \notin WhiteSpace

\* The literal text of a block in a language: the text of that language of
\* an implementation block, the code of an example block.
literalText(b, language) ==
    IF b.kind = "implementation"
    THEN (IF language = "typescript" THEN b.typescript ELSE b.python)
    ELSE b.code

\* C17 as stated: every copy action writes the literal text of the block in
\* the language active at the click, and that text is the same text the
\* block displays.
C17_WrittenIsDisplayed ==
    ui.lastCall # << >> =>
        LET c == ui.lastCall[1]
        IN  /\ << c.text >> = literalText(ui.blocks[c.block], c.language)
            /\ c.text = c.shown

\* C17, amended: every copy action writes the literal text of the block in
\* the language active at the click, unmodified; the block displays that
\* text without its leading and trailing white space, so the text written
\* and the text displayed agree up to surrounding white space only. The
\* clipboard holds a text that some copy action of the page wrote.
C17_WrittenIsLiteralText ==
    /\ ui.lastCall # << >> =>
          LET c == ui.lastCall[1]
          IN  /\ << c.text >> = literalText(ui.blocks[c.block], c.language)
              /\ surroundedByWhiteSpace(c.text, c.shown)
    /\ ui.clipboard # noText =>
          \E k \in 1..Len(ui.blocks) : \E i \in 1..Len(ToggleLanguages) :
              ui.clipboard = literalText(ui.blocks[k], ToggleLanguages[i])

\* After a toggle to python, a copy wrote a text that differs from the text
\* displayed, and the write reached the clipboard.
C17_Witness ==
    /\ ui.lastCall # << >>
    /\ ui.lastCall[1].language = "python"
    /\ ui.lastCall[1].text # ui.lastCall[1].shown
    /\ ui.clipboard = << ui.lastCall[1].text >>


\* C18: category invariant. Every entry of the rich and of the simple
\* registry has one of the five categories; each tile of the list view shows
\* the category of its entry as its badge, and the detail view shows the
\* category of the entry found, both unchanged.
C18_CategoryInEnumeration ==
    /\ \A src \in Sources : \A i \in 1..Len(patterns[src]) :
          patterns[src][i].category \in PatternCategory
    /\ page.kind = "index" =>
          /\ Len(page.tiles) = Len(patterns[route.src])
          /\ \A i \in 1..Len(page.tiles) :
                page.tiles[i].card.badge = << patterns[route.src][i].category >>
    /\ page.kind = "detail" =>
          /\ page.category \in PatternCategory
          /\ \E i \in 1..Len(patterns[route.src]) :
                /\ patterns[route.src][i].id = route.id
                /\ patterns[route.src][i].category = page.category

\* The detail view of a RUNTIME entry of the rich registry, opened from the
\* tile that shows the same category.
C18_Witness ==
    /\ page.kind = "detail"
    /\ route.src = "data"
    /\ page.category = "RUNTIME"
    /\ route.via # << >>
    /\ route.via[1].card.badge = << "RUNTIME" >>


\* C19: large limit. For every id and every limit not below the size of the
\* registry, relatedTo(id, limit) returns every entry other than the one with
\* the id, each exactly once, nothing else, in registry order.
C19_LargeLimitReturnsAllOthers ==
    fn.relatedDone /\ fn.limit >= Len(patterns[fn.src]) =>
        LET reg == patterns[fn.src]
            n   == Len(fn.related)
        IN  /\ \A i \in 1..Len(reg) :
                  reg[i].id # fn.id =>
                      Cardinality({k \in 1..n : fn.related[k] = reg[i]}) = 1
            /\ \A k \in 1..n :
                  /\ fn.related[k].id # fn.id
                  /\ \E i \in 1..Len(reg) : reg[i] = fn.related[k]
            /\ \A j, k \in 1..n :
                  j < k => \E a, b \in 1..Len(reg) :
                              /\ a < b
                              /\ reg[a].id = fn.related[j].id
                              /\ reg[b].id = fn.related[k].id

\* A limit above the size of the registry with the id of the last entry:
\* the other five entries come back.
C19_Witness ==
    /\ fn.relatedDone
    /\ fn.limit > Len(patterns[fn.src])
    /\ fn.id = "stack-trace"
    /\ IdsOf(fn.related) = SubSeq(DeclarationOrder, 1, 5)


\* Lowercase letters, digits and the hyphen.
UrlSafe ==
    { "a", "b", "c", "d", "e", "f", "g", "h", "i", "j", "k", "l", "m",
      "n", "o", "p", "q", "r", "s", "t", "u", "v", "w", "x", "y", "z",
      "0", "1", "2", "3", "4", "5", "6", "7", "8", "9", "-" }

RECURSIVE urlSafe(_)
urlSafe(s) ==
    s = "" \/ (SubSeq(s, 1, 1) \in UrlSafe /\ urlSafe(SubSeq(s, 2, Len(s))))

\* C20: URL-safe ids. Every id of both registries is non-empty and made of
\* lowercase letters, digits and hyphens only; the path /patterns/{id} built
\* by plain interpolation, as each tile of the list view builds it, yields
\* the same id when the route reads its parameter back, and a detail page
\* opened from a tile is asked for the id of that tile's entry.
C20_IdsUrlSafe ==
    /\ \A src \in Sources : \A i \in 1..Len(patterns[src]) :
          LET id == patterns[src][i].id
          IN  /\ id # ""
              /\ urlSafe(id)
              /\ paramsOf("/patterns/" \o id) = << id >>
    /\ page.kind = "index" =>
          \A i \in 1..Len(page.tiles) :
              /\ page.tiles[i].card.href = "/patterns/" \o patterns[route.src][i].id
              /\ paramsOf(page.tiles[i].card.href) = << patterns[route.src][i].id >>
    /\ route.via # << >> =>
          /\ route.kind = "detail"
          /\ route.id = route.via[1].key
          /\ route.via[1].card.href = "/patterns/" \o route.id

\* The detail page of the entry with the longest id, opened from its tile.
C20_Witness ==
    /\ route.via # << >>
    /\ route.id = "performance-bottleneck"
    /\ page.kind = "detail"
    /\ page.title = "Performance Bottleneck"


\* C21: the detail render never uses an absent pattern. The step that
\* leaves the guard into the render (binding currentPattern, reading its
\* fields, computing the related list) is taken only with a pattern the
\* lookup found; with none found the only step from the guard raises the
\* not-found signal and renders nothing, and a detail view on screen always
\* belongs to a found pattern.
C21_RenderOnlyWhenFound ==
    /\ [](page.kind = "detail" => ~falsy(pattern) /\ pattern.id = route.id)
    /\ [](pc = "boundary" => falsy(pattern) /\ page.kind = "pending")
    /\ [][ pc = "guard" =>
              IF falsy(pattern)
              THEN /\ pc' = "boundary"
                   /\ error' = "NEXT_NOT_FOUND"
                   /\ page' = page
                   /\ ui' = ui
              ELSE /\ pc' = "idle"
                   /\ page'.kind = "detail"
                   /\ page'.title = pattern.title ]_vars

\* A found pattern was rendered after an earlier request ended in not-found.
C21_Witness ==
    /\ notFounds > 0
    /\ pc = "idle"
    /\ lookups = 1
    /\ ~falsy(pattern)
    /\ pattern.id = "stack-trace"
    /\ page.kind = "detail"
    /\ page.title = pattern.title


\* C22: use-case preview on a tile. For a Pattern with n use cases the card
\* shows exactly the first min(2, n) of them in their original order, and a
\* "+k more" line if and only if n > 2, with k = n - 2; the number shown
\* plus k is n.
C22_UseCasePreview ==
    fn.done =>
        LET n     == Len(fn.useCases)
            card  == fn.card[1]
            shown == Len(card.useCases)
            k     == IF card.more = << >> THEN 0 ELSE card.more[1]
        IN  /\ shown = Min(2, n)
            /\ \A i \in 1..shown : card.useCases[i] = fn.useCases[i]
            /\ card.more # << >> <=> n > 2
            /\ card.more # << >> => card.more = << n - 2 >>
            /\ shown + k = n

\* A card for three use cases, two of them equal: two shown, "+1 more".
C22_Witness ==
    /\ fn.done
    /\ fn.useCases = << "Error boundaries", "Error tracking", "Error boundaries" >>
    /\ fn.card[1].useCases = << "Error boundaries", "Error tracking" >>
    /\ fn.card[1].more = << 1 >>


\* The path is "/" or /patterns/{id} with id an id of the registries.
targetsExistingPage(href) ==
    \/ href = "/"
    \/ /\ paramsOf(href) # << >>
       /\ \A src \in Sources : HasId(patterns[src], paramsOf(href)[1])

\* C23: no dangling links. Every link of the list view, of a detail view
\* and of the not-found page targets "/" or the detail path of a registry
\* id; a page opened by following a link is never the not-found page, so no
\* sequence of link clicks reaches it; and the list view holds, for every
\* entry of its registry, a tile whose link opens that entry's detail page.
C23_NoDanglingLinks ==
    /\ page.kind = "index" =>
          /\ \A i \in 1..Len(page.tiles) : targetsExistingPage(page.tiles[i].card.href)
          /\ \A i \in 1..Len(patterns[route.src]) :
                \E t \in 1..Len(page.tiles) :
                    paramsOf(page.tiles[t].card.href) = << patterns[route.src][i].id >>
    /\ page.kind = "detail" =>
          /\ page.back = "/"
          /\ \A k \in 1..Len(page.related) : targetsExistingPage(page.related[k].href)
    /\ page.kind = "not-found" => page.home = "/"
    /\ route.link # << >> =>
          /\ targetsExistingPage(route.link[1])
          /\ route.kind \in {"index", "detail"}
          /\ page.kind \in {"index", "pending", "detail"}
          /\ error = "none"
          /\ pc = "idle" /\ route.kind = "detail" =>
                page.kind = "detail" /\ pattern.id = paramsOf(route.link[1])[1]

\* A detail page opened by a related-pattern link, third in a chain of
\* clicks that met no not-found page.
C23_Witness ==
    /\ route.link = << "/patterns/memory-leaks" >>
    /\ route.via = << >>
    /\ page.kind = "detail"
    /\ page.title = patterns[route.src][2].title
    /\ served >= 3
    /\ notFounds = 0


\* C24: the copied indicator is transient. It is false until the first copy
\* action; only a successful write sets it, and that write starts a timer;
\* once the copy actions have stopped and the started timers have expired,
\* the indicator of every block on the page is false and stays false.
C24_CopiedIsTransient ==
    /\ [](\A k \in 1..Len(ui.blocks) : ui.blocks[k].calls = 0 => ~ui.blocks[k].copied)
    /\ [][ \A k \in 1..Len(ui.blocks) :
              /\ ui'.blocks[k].succeeded > ui.blocks[k].succeeded =>
                    /\ ui'.blocks[k].copied
                    /\ ui'.blocks[k].timers = ui.blocks[k].timers + 1
              /\ (~ui.blocks[k].copied /\ ui'.blocks[k].copied) =>
                    ui'.blocks[k].succeeded = ui.blocks[k].succeeded + 1 ]_vars
    /\ <>[](ui.crashed \/ \A k \in 1..Len(ui.blocks) : ~ui.blocks[k].copied)

\* A block whose copy succeeded and whose timer has expired: the indicator
\* is false again and nothing is pending.
C24_Witness ==
    \E k \in 1..Len(ui.blocks) :
        /\ ui.blocks[k].succeeded = 1
        /\ ui.blocks[k].calls = 1
        /\ ui.blocks[k].timers = 0
        /\ ui.blocks[k].writes = << >>
        /\ ~ui.blocks[k].copied
        /\ ui.clipboard # noText

\* C25: overlapping copies. While the timer started by the most recent
\* successful copy of a block is pending, the copied indicator of the block
\* is true: a timer started by an earlier copy never clears it.
C25_LatestTimerClears ==
    \A k \in 1..Len(ui.blocks) :
        (~ui.crashed /\ ui.blocks[k].timers > 0) => ui.blocks[k].copied


\* C26: language toggle. The active language of an implementation block is
\* typescript or python; it is typescript until the first click and the
\* language of the last click after it; a click on the active language
\* changes nothing in the block; both languages are offered in every state
\* of a working page; and the code passed to the code block is the text of
\* the active language.
C26_LanguageToggle ==
    /\ [](\A k \in 1..Len(ui.blocks) :
            ui.blocks[k].kind = "implementation" =>
                LET b == ui.blocks[k]
                IN  /\ b.language \in {"typescript", "python"}
                    /\ b.clicked = noText => b.language = "typescript"
                    /\ b.clicked # noText => b.clicked = << b.language >>
                    /\ b.code = literalText(b, b.language)
                    /\ ToggleLanguages = << "typescript", "python" >>
                    /\ ~ui.crashed =>
                          \A i \in 1..Len(ToggleLanguages) :
                              ENABLED ToggleLanguage(k, ToggleLanguages[i]))
    /\ [][ \A k \in 1..Len(ui.blocks) :
              (/\ ui'.blocks[k].clicked # ui.blocks[k].clicked
               /\ ui'.blocks[k].clicked = << ui.blocks[k].language >>) =>
                  /\ ui'.blocks[k] = [ui.blocks[k] EXCEPT !.clicked = ui'.blocks[k].clicked]
                  /\ ui'.crashed = ui.crashed ]_vars

\* After a click on Python the block shows the python text, the last
\* language clicked, on a working page.
C26_Witness ==
    /\ ui.blocks # << >>
    /\ ~ui.crashed
    /\ ui.blocks[1].kind = "implementation"
    /\ ui.blocks[1].clicked = << "python" >>
    /\ ui.blocks[1].language = "python"
    /\ ui.blocks[1].code = ui.blocks[1].python
    /\ ui.blocks[1].shown = << trim(ui.blocks[1].python[1]) >>


\* C27: priority loading. PRIORITY_PATTERNS holds exactly the ids of the
\* first six entries of the simple registry, and in the list view built
\* with it a tile has priority = true if and only if its pattern is one of
\* those first six entries.
C27_PriorityIsFirstSix ==
    LET reg   == patterns["lib"]
        first == { reg[j].id : j \in 1..Min(6, Len(reg)) }
    IN  /\ { PRIORITY_PATTERNS[i] : i \in 1..Len(PRIORITY_PATTERNS) } = first
        /\ (page.kind = "index" /\ route.src = "lib") =>
              \A i \in 1..Len(page.tiles) :
                  page.tiles[i].card.image.priority = (page.tiles[i].key \in first)

\* The list view over the simple registry with its sixth tile prioritized.
C27_Witness ==
    /\ page.kind = "index"
    /\ route.src = "lib"
    /\ Len(page.tiles) = 6
    /\ page.tiles[6].key = "stack-trace"
    /\ page.tiles[6].card.image.priority


\* C28: the related list depends only on position. On the detail page of
\* the first registry entry it is [second, third], of the second entry
\* [first, third], of every later entry [first, second]; so only the first
\* three entries ever appear as related patterns, and a detail page opened
\* by a related-pattern link is the page of one of the first three entries.
C28_RelatedByPosition ==
    LET reg        == patterns[route.src]
        firstThree == { reg[1].id, reg[2].id, reg[3].id }
    IN  /\ page.kind = "detail" =>
              \E i \in 1..Len(reg) :
                  /\ reg[i].id = route.id
                  /\ [k \in 1..Len(page.related) |-> page.related[k].key] =
                        IF i = 1 THEN << reg[2].id, reg[3].id >>
                        ELSE IF i = 2 THEN << reg[1].id, reg[3].id >>
                        ELSE << reg[1].id, reg[2].id >>
                  /\ \A k \in 1..Len(page.related) : page.related[k].key \in firstThree
        /\ (route.kind = "detail" /\ route.link # << >> /\ route.via = << >>) =>
              /\ route.id \in firstThree
              /\ pc = "idle" => page.kind = "detail"

\* The detail page of the third entry, opened by a related-pattern link,
\* lists the first and the second entry.
C28_Witness ==
    /\ route.kind = "detail"
    /\ route.link = << "/patterns/api-integration" >>
    /\ route.via = << >>
    /\ page.kind = "detail"
    /\ Len(page.related) = 2
    /\ page.related[1].key = "async-promise-hell"
    /\ page.related[2].key = "memory-leaks"

=============================================================================
